---- MODULE Spec2Model ----
(***************************************************************************)
(* Caching and analysis-memoization layer of chess-games-analyzer:         *)
(* CacheService (in-memory profile / monthly caches, SQLite games and      *)
(* analysis tables), ChessComService.getMonthlyGames / getPlayerProfile,   *)
(* and the analysis loop of the POST /api/analyze handler.                 *)
(***************************************************************************)
EXTENDS Integers, Sequences, FiniteSets, TLC

\* ------------------------------------------------------------------ bounds
MaxBatch == 3        \* longest rawGames list handed to the analysis loop
NumRevs == 2         \* distinct outcomes of the non-deterministic summary
MaxTicks == 2        \* clock advances in one behaviour
MaxExtCalls == 2     \* requests to the provider for one month in one behaviour
MaxPut == 2          \* longest list handed to cacheGames directly

\* ------------------------------------------------------- program constants
USER_PROFILE_TTL == 3600000
MONTHLY_GAMES_TTL == 86400000
CURRENT_MONTH_TTL == 300000

\* ---------------------------------------------------------------- strings
\* A string is a sequence of one-character strings.
LowerChar(c) ==
  IF c = "A" THEN "a" ELSE IF c = "B" THEN "b" ELSE c

toLowerCase(s) == [k \in 1..Len(s) |-> LowerChar(s[k])]

startsWith(s, p) == Len(p) <= Len(s) /\ SubSeq(s, 1, Len(p)) = p

DigitChar(d) ==
  CASE d = 0 -> "0" [] d = 1 -> "1" [] d = 2 -> "2" [] d = 3 -> "3"
    [] d = 4 -> "4" [] d = 5 -> "5" [] d = 6 -> "6" [] d = 7 -> "7"
    [] d = 8 -> "8" [] d = 9 -> "9"

RECURSIVE NumStr(_)
NumStr(n) == IF n < 10 THEN <<DigitChar(n)>>
             ELSE NumStr(n \div 10) \o <<DigitChar(n % 10)>>

\* The spellings under which requests arrive.
UAlice == <<"A", "l">>
Ualice == <<"a", "l">>
Ubob == <<"b", "o">>
Usernames == {UAlice, Ualice, Ubob}

\* ------------------------------------------------------------------ games
GameIds == {"g1", "g2", "g3"}
Periods == {<<2024, 12>>, <<2025, 1>>}

\* The players of a game as the provider spells them, and the month of its
\* end_time.
WhiteOf(g) == IF g = "g2" THEN Ubob ELSE UAlice
BlackOf(g) == IF g = "g2" THEN UAlice ELSE Ubob
EndOf(g) == IF g = "g3" THEN <<2025, 1>> ELSE <<2024, 12>>

\* A ChessComGame as delivered by the provider; pgnOk says whether
\* chess.loadPgn accepts its movetext.
ChessComGame(g, ok) ==
  [uuid |-> g, white |-> WhiteOf(g), black |-> BlackOf(g),
   end_time |-> EndOf(g), pgnOk |-> ok]

\* The games the provider delivers: g3 carries movetext that does not parse.
RawGames == {ChessComGame("g1", TRUE), ChessComGame("g2", TRUE),
             ChessComGame("g3", FALSE)}

RECURSIVE SeqsUpTo(_, _)
SeqsUpTo(S, n) ==
  IF n = 0 THEN {<<>>}
  ELSE LET shorter == SeqsUpTo(S, n - 1)
           longest == {t \in shorter : Len(t) = n - 1}
       IN shorter \cup {Append(s, x) : s \in longest, x \in S}

\* rawGames.length === 0 ends the handler before the loop.
RawGameLists == SeqsUpTo(RawGames, MaxBatch) \ {<<>>}

Revs == 1..NumRevs

\* JSON.stringify / JSON.parse of a plain data object.
JSONstringify(v) == [json |-> v]
JSONparse(s) == s.json

\* JS Map / SQL table with a primary key: a function on the present keys.
EmptyMap == [k \in {} |-> 0]
MapSet(m, k, v) == [x \in DOMAIN m \cup {k} |-> IF x = k THEN v ELSE m[x]]
MapKeep(m, K) == [x \in DOMAIN m \cap K |-> m[x]]
MapDelete(m, k) == MapKeep(m, DOMAIN m \ {k})

VARIABLES
  games,            \* SQLite table games, by uuid
  analysis,         \* SQLite table analysis, by game_uuid
  monthlyGamesCache,
  userProfileCache,
  now,              \* Date.now(), ms since the process started
  ticks,            \* clock advances so far
  batch,            \* the analysis loop of each /api/analyze request
  clr,              \* the clearAllCache call in progress
  fetch,            \* the getMonthlyGames calls
  prof,             \* the getPlayerProfile call
  extCalls,         \* per month key: requests sent to the provider, and
                    \* when the latest one was sent
  last,             \* the call that returned in the last step
  storedFor,        \* history: the (table, uuid, lowercased username) of the
                    \* rows each user has written and not cleared since
  dbReady           \* how the promise of initializeDatabase settled

vars == <<games, analysis, monthlyGamesCache, userProfileCache, now, ticks,
          batch, clr, fetch, prof, extCalls, last, storedFor, dbReady>>

\* ------------------------------------------------------------------ clock
\* The process starts in December 2024, two hours before the month turns.
MonthEnd == 2 * 3600000

\* new Date(): getFullYear(), getMonth() + 1
CurrentDate(t) == IF t < MonthEnd THEN <<2024, 12>> ELSE <<2025, 1>>

Deltas == {CURRENT_MONTH_TTL, USER_PROFILE_TTL, MONTHLY_GAMES_TTL}

\* ------------------------------------------- CacheService: user profiles
ProfileKey(username) == toLowerCase(username)

ProfileFresh(username) ==
  /\ ProfileKey(username) \in DOMAIN userProfileCache
  /\ ~(now > userProfileCache[ProfileKey(username)].expiresAt)

\* getCachedUserProfile: the value returned ...
getCachedUserProfile(username) ==
  IF ProfileFresh(username)
  THEN [hit |-> TRUE, data |-> userProfileCache[ProfileKey(username)].data]
  ELSE [hit |-> FALSE]

\* ... and the map it leaves (a stale entry is deleted).
getCachedUserProfileMap(username) ==
  IF ProfileFresh(username) THEN userProfileCache
  ELSE MapDelete(userProfileCache, ProfileKey(username))

cacheUserProfile(username, profile) ==
  MapSet(userProfileCache, toLowerCase(username),
         [data |-> profile, timestamp |-> now,
          expiresAt |-> now + USER_PROFILE_TTL])

clearUserProfileCache(arg) ==
  IF arg.given THEN MapDelete(userProfileCache, toLowerCase(arg.username))
  ELSE EmptyMap

\* ------------------------------------------- CacheService: monthly games
\* `${username.toLowerCase()}_${year}_${month}`
MonthKey(username, year, month) ==
  toLowerCase(username) \o <<"_">> \o NumStr(year) \o <<"_">> \o NumStr(month)

\* Faulty variants of the expiry test: one TTL for every month.
MonthlyExpired_longOnly(entry, year, month) == now > entry.expiresAt

MonthlyExpired_shortOnly(entry, year, month) ==
  now > entry.timestamp + CURRENT_MONTH_TTL

\* Faulty variant: the TTL of the month the batch was written in.
MonthlyExpired_writeTime(entry, year, month) ==
  IF <<year, month>> = CurrentDate(entry.timestamp)
  THEN now > entry.timestamp + CURRENT_MONTH_TTL
  ELSE now > entry.expiresAt

MonthlyExpired(entry, year, month) ==
  IF <<year, month>> = CurrentDate(now)
  THEN now > entry.timestamp + CURRENT_MONTH_TTL
  ELSE now > entry.expiresAt

MonthlyFresh(username, year, month) ==
  /\ MonthKey(username, year, month) \in DOMAIN monthlyGamesCache
  /\ ~MonthlyExpired(monthlyGamesCache[MonthKey(username, year, month)],
                     year, month)

\* getCachedMonthlyGames: the value returned ...
getCachedMonthlyGames(username, year, month) ==
  IF MonthlyFresh(username, year, month)
  THEN [hit |-> TRUE,
        data |-> monthlyGamesCache[MonthKey(username, year, month)].data]
  ELSE [hit |-> FALSE]

\* ... and the map it leaves (an expired entry is deleted).
getCachedMonthlyGamesMap(username, year, month) ==
  IF MonthlyFresh(username, year, month) THEN monthlyGamesCache
  ELSE MapDelete(monthlyGamesCache, MonthKey(username, year, month))

\* Faulty variant: the key is built from the username as typed.
cacheMonthlyGames_asTyped(cache, username, year, month, gs) ==
  MapSet(cache,
         username \o <<"_">> \o NumStr(year) \o <<"_">> \o NumStr(month),
         [data |-> gs, timestamp |-> now,
          expiresAt |-> now + MONTHLY_GAMES_TTL])

cacheMonthlyGames(cache, username, year, month, gs) ==
  MapSet(cache, MonthKey(username, year, month),
         [data |-> gs, timestamp |-> now,
          expiresAt |-> now + MONTHLY_GAMES_TTL])

clearMonthlyGamesCache(arg) ==
  IF arg.given
  THEN MapKeep(monthlyGamesCache,
               {k \in DOMAIN monthlyGamesCache :
                  ~startsWith(k, toLowerCase(arg.username))})
  ELSE EmptyMap

\* ------------------------------------------------ CacheService: games
getCachedGame(uuid) ==
  IF uuid \in DOMAIN games
  THEN [hit |-> TRUE, data |-> JSONparse(games[uuid].game_data)]
  ELSE [hit |-> FALSE]

\* Faulty variant of cacheGame: nothing is written.
cacheGame_noWrite(table, game, username) == table

\* Faulty variant of cacheGame: a plain INSERT that leaves an existing row.
cacheGame_insertOnly(table, game, username) ==
  IF game.uuid \in DOMAIN table THEN table
  ELSE MapSet(table, game.uuid,
              [username |-> toLowerCase(username),
               year |-> game.end_time[1], month |-> game.end_time[2],
               game_data |-> JSONstringify(game)])

\* INSERT OR REPLACE INTO games; uuid is the primary key.  The column
\* cached_at is written and never read, and is left out.
cacheGame(table, game, username) ==
  MapSet(table, game.uuid,
         [username |-> toLowerCase(username),
          year |-> game.end_time[1], month |-> game.end_time[2],
          game_data |-> JSONstringify(game)])

\* cacheGames: one cacheGame per game, in list order.
RECURSIVE cacheGames(_, _, _)
cacheGames(table, gs, username) ==
  IF gs = <<>> THEN table
  ELSE cacheGames(cacheGame(table, Head(gs), username), Tail(gs), username)

clearGameCache(arg) ==
  IF arg.given
  THEN MapKeep(games, {g \in DOMAIN games :
                         games[g].username # toLowerCase(arg.username)})
  ELSE EmptyMap

\* --------------------------------------------- CacheService: analyses
\* SELECT ... WHERE game_uuid = ? AND username = ?
getCachedAnalysis(gameUuid, username) ==
  IF gameUuid \in DOMAIN analysis
     /\ analysis[gameUuid].username = toLowerCase(username)
  THEN [hit |-> TRUE, data |-> JSONparse(analysis[gameUuid].analysis_data)]
  ELSE [hit |-> FALSE]

\* Faulty variants of cacheAnalysis: the row is not written; the username
\* is stored as typed.
cacheAnalysis_noWrite(table, gameUuid, username, a) == table

cacheAnalysis_asTyped(table, gameUuid, username, a) ==
  MapSet(table, gameUuid,
         [username |-> username, analysis_data |-> JSONstringify(a)])

\* INSERT OR REPLACE INTO analysis; game_uuid alone is the primary key.
cacheAnalysis(table, gameUuid, username, a) ==
  MapSet(table, gameUuid,
         [username |-> toLowerCase(username),
          analysis_data |-> JSONstringify(a)])

\* Faulty variant of getCachedAnalyses: the rows of every user are returned.
getCachedAnalyses_anyUser(username, gameUuids) ==
  LET hits == {g \in DOMAIN analysis :
                 \E k \in 1..Len(gameUuids) : gameUuids[k] = g}
  IN [g \in hits |-> JSONparse(analysis[g].analysis_data)]

\* SELECT ... WHERE username = ? AND game_uuid IN (...): a Map of the rows.
getCachedAnalyses(username, gameUuids) ==
  LET hits == {g \in DOMAIN analysis :
                 /\ \E k \in 1..Len(gameUuids) : gameUuids[k] = g
                 /\ analysis[g].username = toLowerCase(username)}
  IN [g \in hits |-> JSONparse(analysis[g].analysis_data)]

clearAnalysisCache(arg) ==
  IF arg.given
  THEN MapKeep(analysis, {g \in DOMAIN analysis :
                            analysis[g].username # toLowerCase(arg.username)})
  ELSE EmptyMap

\* ---------------------------------------------------------- AIGameAnalyzer
\* getPlayerColor: game.white.username === playerUsername
getPlayerColor(game, playerUsername) ==
  IF game.white = playerUsername THEN "white" ELSE "black"

\* The GameAnalysis analyzeGame returns; rev stands for the parts that vary
\* from run to run (the generated summary, the random explanation texts).
analyzeGame(game, playerUsername, rev) ==
  [gameId |-> game.uuid,
   playerColor |-> getPlayerColor(game, playerUsername),
   rev |-> rev,
   moveErrors |-> FALSE]

\* The same when evaluateMove (or chess.move) threw for a move: the catch
\* of the move loop pushes the move without evaluation and the loop goes on.
analyzeGameMoveError(game, playerUsername, rev) ==
  [analyzeGame(game, playerUsername, rev) EXCEPT !.moveErrors = TRUE]

\* Faulty variant of the parse: a pgn that does not load is let through.
parseThrows_never(rawGame) == FALSE

\* PgnParser.parseChessComGame throws when chess.loadPgn rejects the pgn.
parseThrows(rawGame) == ~rawGame.pgnOk

\* -------------------------------------------------------------- processes
Reqs == {1, 2}
NoLast == [kind |-> "none"]

IdleBatch ==
  [pc |-> "idle", username |-> <<>>, rawGames |-> <<>>,
   cachedAnalyses |-> EmptyMap, i |-> 0, analyses |-> <<>>,
   computed |-> <<>>, skipped |-> <<>>, resIdx |-> <<>>,
   atStart |-> EmptyMap, unsaved |-> <<>>]

IdleFetch ==
  [pc |-> "idle", username |-> <<>>, year |-> 0, month |-> 0, games |-> <<>>]

IdleProf == [pc |-> "idle", username |-> <<>>]

NoArg == [given |-> FALSE, username |-> <<>>]
ClearArgs == {NoArg} \cup {[given |-> TRUE, username |-> u] : u \in Usernames}

BatchQuiet == \A r \in Reqs : batch[r].pc = "idle"
ClearQuiet == clr.pc = "idle"
FetchQuiet == \A p \in Reqs : fetch[p].pc = "idle"
ProfQuiet == prof.pc = "idle"
Quiet == BatchQuiet /\ ClearQuiet /\ FetchQuiet /\ ProfQuiet

Uuids(gs) == [k \in 1..Len(gs) |-> gs[k].uuid]

\* Faulty variant of push: unshift.
Push_unshift(list, x) == <<x>> \o list

\* analyses.push(x)
Push(list, x) == Append(list, x)

\* ------------------------------------------- POST /api/analyze: the loop
\* gameUuids, getCachedAnalyses, analyses = [].  The fields computed,
\* skipped, resIdx, atStart and unsaved only record what the run did.
StartBatch(r, username, rawGames) ==
  /\ batch[r].pc = "idle"
  /\ dbReady = "resolved"
  /\ batch' = [batch EXCEPT ![r] =
       [pc |-> "loop", username |-> username, rawGames |-> rawGames,
        cachedAnalyses |-> getCachedAnalyses(username, Uuids(rawGames)),
        i |-> 1, analyses |-> <<>>,
        computed |-> <<>>, skipped |-> <<>>, resIdx |-> <<>>,
        atStart |-> analysis, unsaved |-> <<>>]]
  /\ last' = NoLast
  /\ UNCHANGED <<games, analysis, monthlyGamesCache, userProfileCache, now,
                 ticks, clr, fetch, extCalls, prof, storedFor, dbReady>>

\* One pass of the for loop up to its first await: the parse throws and the
\* game is skipped, or the cached analysis is pushed, or analyzeGame is
\* called.
LoopIteration(r) ==
  LET b == batch[r]
      rawGame == b.rawGames[b.i]
  IN /\ b.pc = "loop"
     /\ b.i <= Len(b.rawGames)
     /\ \/ /\ parseThrows(rawGame)
           /\ batch' = [batch EXCEPT ![r].i = b.i + 1,
                                     ![r].skipped = Append(b.skipped, b.i)]
        \/ /\ ~parseThrows(rawGame)
           /\ rawGame.uuid \in DOMAIN b.cachedAnalyses
           /\ batch' = [batch EXCEPT
                ![r].analyses = Push(b.analyses,
                                     b.cachedAnalyses[rawGame.uuid]),
                ![r].resIdx = Push(b.resIdx, b.i),
                ![r].i = b.i + 1]
        \/ /\ ~parseThrows(rawGame)
           /\ rawGame.uuid \notin DOMAIN b.cachedAnalyses
           /\ batch' = [batch EXCEPT ![r].pc = "analyzing",
                                     ![r].computed = Append(b.computed, b.i)]
     /\ last' = NoLast
     /\ UNCHANGED <<games, analysis, monthlyGamesCache, userProfileCache, now,
                    ticks, clr, fetch, extCalls, prof, storedFor, dbReady>>

\* analyzeGame resolves: the analysis is pushed and cacheAnalysis is called.
AnalyzeGameReturns(r, rev) ==
  LET b == batch[r]
  IN /\ b.pc = "analyzing"
     /\ batch' = [batch EXCEPT
          ![r].analyses = Push(b.analyses,
                               analyzeGame(b.rawGames[b.i], b.username, rev)),
          ![r].resIdx = Push(b.resIdx, b.i),
          ![r].pc = "caching"]
     /\ last' = NoLast
     /\ UNCHANGED <<games, analysis, monthlyGamesCache, userProfileCache, now,
                    ticks, clr, fetch, extCalls, prof, storedFor, dbReady>>

\* cacheAnalysis resolves: the row is written, the loop goes on.
CacheAnalysisResolves(r) ==
  LET b == batch[r]
  IN /\ b.pc = "caching"
     /\ dbReady = "resolved"
     /\ analysis' = cacheAnalysis(analysis, b.rawGames[b.i].uuid, b.username,
                                  b.analyses[Len(b.analyses)])
     /\ batch' = [batch EXCEPT ![r].pc = "loop", ![r].i = b.i + 1]
     /\ storedFor' = storedFor \cup
          {<<"analysis", b.rawGames[b.i].uuid, toLowerCase(b.username)>>}
     /\ last' = NoLast
     /\ UNCHANGED <<games, monthlyGamesCache, userProfileCache, now, ticks,
                    clr, fetch, extCalls, prof, dbReady>>

\* The same with a move whose evaluation threw.
AnalyzeGameMoveError(r, rev) ==
  LET b == batch[r]
  IN /\ b.pc = "analyzing"
     /\ batch' = [batch EXCEPT
          ![r].analyses =
             Push(b.analyses,
                  analyzeGameMoveError(b.rawGames[b.i], b.username, rev)),
          ![r].resIdx = Push(b.resIdx, b.i),
          ![r].pc = "caching"]
     /\ last' = NoLast
     /\ UNCHANGED <<games, analysis, monthlyGamesCache, userProfileCache, now,
                    ticks, clr, fetch, extCalls, prof, storedFor, dbReady>>

\* Faulty variant: the analysis is returned without a summary.
AfterEvaluation_noSummary(b) == [b EXCEPT !.pc = "caching"]

\* analyzeGame, the move loop is over (a move whose evaluation threw was
\* pushed as it is): the summary is requested.
AfterEvaluation(b) == [b EXCEPT !.pc = "summarizing"]

\* analyzeGame taken in two steps, at its awaits: the last evaluateMove
\* resolves ...
EvaluationEnds(r) ==
  /\ batch[r].pc = "analyzing"
  /\ batch' = [batch EXCEPT ![r] = AfterEvaluation(batch[r])]
  /\ last' = NoLast
  /\ UNCHANGED <<games, analysis, monthlyGamesCache, userProfileCache, now,
                 ticks, clr, fetch, extCalls, prof, storedFor, dbReady>>

\* ... and analyzeGameComprehensively resolves (with the generated summary
\* or with the fallback one): analyzeGame returns, the analysis is pushed
\* and cacheAnalysis is called.  err says whether the evaluation of a move
\* had thrown in the move loop.
SummaryReturns(r, rev, err) ==
  LET b == batch[r]
      a == IF err THEN analyzeGameMoveError(b.rawGames[b.i], b.username, rev)
           ELSE analyzeGame(b.rawGames[b.i], b.username, rev)
  IN /\ b.pc = "summarizing"
     /\ batch' = [batch EXCEPT ![r].analyses = Push(b.analyses, a),
                               ![r].resIdx = Push(b.resIdx, b.i),
                               ![r].pc = "caching"]
     /\ last' = NoLast
     /\ UNCHANGED <<games, analysis, monthlyGamesCache, userProfileCache, now,
                    ticks, clr, fetch, extCalls, prof, storedFor, dbReady>>

\* Faulty variant of the catch: the error ends the loop.
WriteFailureCaught_endsLoop(b) ==
  [b EXCEPT !.pc = "loop", !.i = Len(b.rawGames) + 1,
            !.unsaved = Append(b.unsaved, b.i)]

\* catch (error) { console.warn(`Skipping game ...`) }: the next pass.
WriteFailureCaught(b) ==
  [b EXCEPT !.pc = "loop", !.i = b.i + 1, !.unsaved = Append(b.unsaved, b.i)]

\* cacheAnalysis rejects (the INSERT reported an error): no row is written
\* and the catch of the loop body takes over.
CacheAnalysisRejects(r) ==
  /\ batch[r].pc = "caching"
  /\ batch' = [batch EXCEPT ![r] = WriteFailureCaught(batch[r])]
  /\ last' = NoLast
  /\ UNCHANGED <<games, analysis, monthlyGamesCache, userProfileCache, now,
                 ticks, clr, fetch, extCalls, prof, storedFor, dbReady>>

\* db.all reports an error: getCachedAnalyses resolves with the empty Map.
StartBatchReadError(r, username, rawGames) ==
  /\ batch[r].pc = "idle"
  /\ dbReady = "resolved"
  /\ batch' = [batch EXCEPT ![r] =
       [pc |-> "loop", username |-> username, rawGames |-> rawGames,
        cachedAnalyses |-> EmptyMap,
        i |-> 1, analyses |-> <<>>,
        computed |-> <<>>, skipped |-> <<>>, resIdx |-> <<>>,
        atStart |-> analysis, unsaved |-> <<>>]]
  /\ last' = [kind |-> "read", op |-> "getCachedAnalyses", failed |-> TRUE,
              settled |-> "resolved", value |-> EmptyMap, miss |-> EmptyMap]
  /\ UNCHANGED <<games, analysis, monthlyGamesCache, userProfileCache, now,
                 ticks, clr, fetch, extCalls, prof, storedFor, dbReady>>

\* await this.dbReady throws in getCachedAnalyses: the outer catch of the
\* handler answers with an error event, no game is looked at.
StartBatchRejects(r, username, rawGames) ==
  /\ batch[r].pc = "idle"
  /\ dbReady = "rejected"
  /\ last' = [kind |-> "read", op |-> "getCachedAnalyses", failed |-> TRUE,
              settled |-> "rejected", value |-> EmptyMap, miss |-> EmptyMap]
  /\ UNCHANGED <<games, analysis, monthlyGamesCache, userProfileCache, now,
                 ticks, batch, clr, fetch, extCalls, prof, storedFor, dbReady>>

\* The loop is over.
LoopEnd(r) ==
  /\ batch[r].pc = "loop"
  /\ batch[r].i > Len(batch[r].rawGames)
  /\ batch' = [batch EXCEPT ![r].pc = "done"]
  /\ last' = NoLast
  /\ UNCHANGED <<games, analysis, monthlyGamesCache, userProfileCache, now,
                 ticks, clr, fetch, extCalls, prof, storedFor, dbReady>>

\* The handler has answered; its locals are gone.
HandlerEnds(r) ==
  /\ batch[r].pc = "done"
  /\ batch' = [batch EXCEPT ![r] = IdleBatch]
  /\ last' = NoLast
  /\ UNCHANGED <<games, analysis, monthlyGamesCache, userProfileCache, now,
                 ticks, clr, fetch, extCalls, prof, storedFor, dbReady>>

\* ------------------------------------------- CacheService.clearAllCache
\* The rows of this (lowercased) user are within the scope of clear(arg).
Cleared(arg, username) == ~arg.given \/ toLowerCase(arg.username) = username

\* clearUserProfileCache and clearMonthlyGamesCache run at once; the two
\* DELETEs follow, each behind an await.
ClearAllCache(arg) ==
  /\ clr.pc = "idle"
  /\ userProfileCache' = clearUserProfileCache(arg)
  /\ monthlyGamesCache' = clearMonthlyGamesCache(arg)
  /\ clr' = [pc |-> "games", arg |-> arg]
  /\ last' = NoLast
  /\ UNCHANGED <<games, analysis, now, ticks, batch, fetch, extCalls, prof,
                 storedFor, dbReady>>

ClearGameCacheRuns ==
  /\ clr.pc = "games"
  /\ dbReady = "resolved"
  /\ games' = clearGameCache(clr.arg)
  /\ storedFor' = {t \in storedFor : t[1] # "game" \/ ~Cleared(clr.arg, t[3])}
  /\ clr' = [clr EXCEPT !.pc = "analysis"]
  /\ last' = NoLast
  /\ UNCHANGED <<analysis, monthlyGamesCache, userProfileCache, now, ticks,
                 batch, fetch, extCalls, prof, dbReady>>

ClearAnalysisCacheRuns ==
  /\ clr.pc = "analysis"
  /\ dbReady = "resolved"
  /\ analysis' = clearAnalysisCache(clr.arg)
  /\ storedFor' =
       {t \in storedFor : t[1] # "analysis" \/ ~Cleared(clr.arg, t[3])}
  /\ clr' = [pc |-> "idle", arg |-> clr.arg]
  /\ last' = [kind |-> "cleared", arg |-> clr.arg]
  /\ UNCHANGED <<games, monthlyGamesCache, userProfileCache, now, ticks,
                 batch, fetch, extCalls, prof, dbReady>>

\* ------------------------------------- ChessComService.getMonthlyGames
\* What the provider may answer for a month: December 2024 is still being
\* played, so two requests need not get the same list.
ExtBatches(year, month) ==
  IF <<year, month>> = <<2024, 12>>
  THEN {<<ChessComGame("g1", TRUE)>>,
        <<ChessComGame("g1", TRUE), ChessComGame("g2", TRUE)>>}
  ELSE {<<>>, <<ChessComGame("g3", FALSE)>>}

MonthlyReturn(p, via, data) ==
  [kind |-> "monthly", username |-> fetch[p].username,
   year |-> fetch[p].year, month |-> fetch[p].month, via |-> via,
   data |-> data]

\* now - timestamp of the cached batch under this key (0 when there is none).
EntryAge(key) ==
  IF key \in DOMAIN monthlyGamesCache
  THEN now - monthlyGamesCache[key].timestamp ELSE 0

\* The requests sent so far for the month of this key.
Requests(key) == IF key \in DOMAIN extCalls THEN extCalls[key].n ELSE 0

\* The call up to its first await: a fresh cached batch is returned, else
\* the request to the provider is sent.
GetMonthlyGames(p, username, year, month) ==
  LET cached == getCachedMonthlyGames(username, year, month)
  IN /\ fetch[p].pc = "idle"
     /\ monthlyGamesCache' = getCachedMonthlyGamesMap(username, year, month)
     /\ IF cached.hit
        THEN /\ fetch' = fetch
             /\ extCalls' = extCalls
             /\ last' = [kind |-> "monthly", username |-> username,
                         year |-> year, month |-> month, via |-> "cache",
                         data |-> cached.data]
        ELSE /\ Requests(MonthKey(username, year, month)) < MaxExtCalls
             /\ fetch' = [fetch EXCEPT ![p] =
                  [pc |-> "fetching", username |-> username, year |-> year,
                   month |-> month, games |-> <<>>]]
             /\ extCalls' = MapSet(extCalls, MonthKey(username, year, month),
                  [n |-> Requests(MonthKey(username, year, month)) + 1,
                   at |-> now])
             /\ last' = [kind |-> "miss", username |-> username,
                         year |-> year, month |-> month,
                         evicted |-> MonthKey(username, year, month)
                                       \in DOMAIN monthlyGamesCache,
                         age |-> EntryAge(MonthKey(username, year, month))]
     /\ UNCHANGED <<games, analysis, userProfileCache, now, ticks, batch, clr,
                    prof, storedFor, dbReady>>

\* response.ok: the batch is cached in memory and cacheGames is called.
FetchResponds(p, gs) ==
  /\ fetch[p].pc = "fetching"
  /\ monthlyGamesCache' = cacheMonthlyGames(monthlyGamesCache,
        fetch[p].username, fetch[p].year, fetch[p].month, gs)
  /\ fetch' = [fetch EXCEPT ![p].pc = "storing", ![p].games = gs]
  /\ last' = NoLast
  /\ UNCHANGED <<games, analysis, userProfileCache, now, ticks, batch, clr,
                 extCalls, prof, storedFor, dbReady>>

\* !response.ok, or the request itself failed: the call throws.
FetchFails(p) ==
  /\ fetch[p].pc = "fetching"
  /\ fetch' = [fetch EXCEPT ![p] = IdleFetch]
  /\ last' = MonthlyReturn(p, "error", <<>>)
  /\ UNCHANGED <<games, analysis, monthlyGamesCache, userProfileCache, now,
                 ticks, batch, clr, extCalls, prof, storedFor, dbReady>>

\* cacheGames resolves and the fetched batch is returned.  The INSERTs of
\* one cacheGames call are taken as one step.
CacheGamesResolves(p) ==
  /\ fetch[p].pc = "storing"
  /\ dbReady = "resolved"
  /\ games' = cacheGames(games, fetch[p].games, fetch[p].username)
  /\ storedFor' = storedFor \cup
       {<<"game", g, toLowerCase(fetch[p].username)>> :
          g \in {fetch[p].games[k].uuid : k \in 1..Len(fetch[p].games)}}
  /\ fetch' = [fetch EXCEPT ![p] = IdleFetch]
  /\ last' = MonthlyReturn(p, "fetched", fetch[p].games)
  /\ UNCHANGED <<analysis, monthlyGamesCache, userProfileCache, now, ticks,
                 batch, clr, extCalls, prof, dbReady>>

\* The games of a list at the positions in W, in list order.
Pick(gs, W) ==
  LET F[k \in 0..Len(gs)] ==
        IF k = 0 THEN <<>>
        ELSE IF k \in W THEN Append(F[k - 1], gs[k]) ELSE F[k - 1]
  IN F[Len(gs)]

\* cacheGames rejects and getMonthlyGames throws: await this.dbReady threw,
\* or Promise.all rejected because an INSERT reported an error.  The other
\* INSERTs of the list (those at the positions in W) may have been done.
CacheGamesRejects(p, W) ==
  /\ fetch[p].pc = "storing"
  /\ W \subseteq 1..Len(fetch[p].games)
  /\ IF dbReady = "rejected" THEN W = {}
     ELSE W # 1..Len(fetch[p].games)
  /\ games' = cacheGames(games, Pick(fetch[p].games, W), fetch[p].username)
  /\ storedFor' = storedFor \cup
       {<<"game", fetch[p].games[k].uuid, toLowerCase(fetch[p].username)>> :
          k \in W}
  /\ fetch' = [fetch EXCEPT ![p] = IdleFetch]
  /\ last' = MonthlyReturn(p, "error", <<>>)
  /\ UNCHANGED <<analysis, monthlyGamesCache, userProfileCache, now, ticks,
                 batch, clr, extCalls, prof, dbReady>>

\* ------------------------------------ ChessComService.getPlayerProfile
ExtProfiles == {"avatar1", "avatar2"}

\* The call up to its first await: a fresh cached profile is returned, else
\* the request to the provider is sent.
GetPlayerProfile(username) ==
  LET cached == getCachedUserProfile(username)
  IN /\ prof.pc = "idle"
     /\ userProfileCache' = getCachedUserProfileMap(username)
     /\ IF cached.hit
        THEN /\ prof' = prof
             /\ last' = [kind |-> "profile", username |-> username,
                         via |-> "cache", data |-> cached.data]
        ELSE /\ prof' = [pc |-> "fetching", username |-> username]
             /\ last' = NoLast
     /\ UNCHANGED <<games, analysis, monthlyGamesCache, now, ticks, batch,
                    clr, fetch, extCalls, storedFor, dbReady>>

\* response.ok: the profile is cached and returned.
ProfileResponds(profile) ==
  /\ prof.pc = "fetching"
  /\ userProfileCache' = cacheUserProfile(prof.username, profile)
  /\ prof' = IdleProf
  /\ last' = [kind |-> "profile", username |-> prof.username,
              via |-> "fetched", data |-> profile]
  /\ UNCHANGED <<games, analysis, monthlyGamesCache, now, ticks, batch, clr,
                 fetch, extCalls, storedFor, dbReady>>

\* !response.ok: the call throws.
ProfileFails ==
  /\ prof.pc = "fetching"
  /\ prof' = IdleProf
  /\ last' = [kind |-> "profile", username |-> prof.username,
              via |-> "error", data |-> ""]
  /\ UNCHANGED <<games, analysis, monthlyGamesCache, userProfileCache, now,
                 ticks, batch, clr, fetch, extCalls, storedFor, dbReady>>

\* ------------------------------------------------------------------ clock
AdvanceTime(d) ==
  /\ ticks < MaxTicks
  /\ now' = now + d
  /\ ticks' = ticks + 1
  /\ last' = NoLast
  /\ UNCHANGED <<games, analysis, monthlyGamesCache, userProfileCache, batch,
                 clr, fetch, extCalls, prof, storedFor, dbReady>>

\* ---------------------------------------------------------- specifications

\* The tables and the maps are empty after construction.
InitEmpty ==
  /\ games = EmptyMap
  /\ analysis = EmptyMap
  /\ monthlyGamesCache = EmptyMap
  /\ userProfileCache = EmptyMap
  /\ now = 0
  /\ ticks = 0
  /\ batch = [r \in Reqs |-> IdleBatch]
  /\ clr = [pc |-> "idle", arg |-> NoArg]
  /\ fetch = [p \in Reqs |-> IdleFetch]
  /\ prof = IdleProf
  /\ extCalls = EmptyMap
  /\ last = NoLast
  /\ storedFor = {}

\* The database was opened and its tables created.
Init == InitEmpty /\ dbReady = "resolved"

\* The database may have failed to open or to initialise.
InitAnyDb == InitEmpty /\ dbReady \in {"resolved", "rejected"}

\* Requests to /api/analyze and to the cache-clear endpoint, one at a time.
Next ==
  \/ \E u \in Usernames, gs \in RawGameLists : Quiet /\ StartBatch(1, u, gs)
  \/ LoopIteration(1)
  \/ \E rev \in Revs : AnalyzeGameReturns(1, rev)
  \/ CacheAnalysisResolves(1)
  \/ LoopEnd(1)
  \/ HandlerEnds(1)
  \/ \E arg \in ClearArgs : Quiet /\ ClearAllCache(arg)
  \/ ClearGameCacheRuns
  \/ ClearAnalysisCacheRuns

Spec == Init /\ [][Next]_vars

\* getMonthlyGames calls of one player under two spellings, one after the
\* other, while the clock runs.
FetchUsers == {UAlice, Ualice}

NextFetch ==
  \/ \E u \in FetchUsers, ym \in Periods : GetMonthlyGames(1, u, ym[1], ym[2])
  \/ \E gs \in ExtBatches(fetch[1].year, fetch[1].month) : FetchResponds(1, gs)
  \/ FetchFails(1)
  \/ CacheGamesResolves(1)
  \/ \E d \in Deltas : AdvanceTime(d)

SpecFetch == Init /\ [][NextFetch]_vars

\* The same calls with two of them in flight at a time.
NextRace ==
  \/ \E p \in Reqs, u \in FetchUsers, ym \in Periods :
       GetMonthlyGames(p, u, ym[1], ym[2])
  \/ \E p \in Reqs : \E gs \in ExtBatches(fetch[p].year, fetch[p].month) :
       FetchResponds(p, gs)
  \/ \E p \in Reqs : FetchFails(p)
  \/ \E p \in Reqs : CacheGamesResolves(p)

SpecRace == Init /\ [][NextRace]_vars

\* Every cache operation under two spellings of one username, one call at a
\* time: profiles, the month being played, one-game batches, clears.
OneGameLists == {gs \in RawGameLists : Len(gs) = 1}
CaseClearArgs ==
  {NoArg} \cup {[given |-> TRUE, username |-> u] : u \in FetchUsers}

NextCase ==
  \/ \E u \in FetchUsers : Quiet /\ GetPlayerProfile(u)
  \/ \E profile \in ExtProfiles : ProfileResponds(profile)
  \/ ProfileFails
  \/ \E u \in FetchUsers : Quiet /\ GetMonthlyGames(1, u, 2024, 12)
  \/ \E gs \in ExtBatches(fetch[1].year, fetch[1].month) : FetchResponds(1, gs)
  \/ FetchFails(1)
  \/ CacheGamesResolves(1)
  \/ \E u \in FetchUsers, gs \in OneGameLists : Quiet /\ StartBatch(1, u, gs)
  \/ LoopIteration(1)
  \/ \E rev \in Revs : AnalyzeGameReturns(1, rev)
  \/ CacheAnalysisResolves(1)
  \/ LoopEnd(1)
  \/ HandlerEnds(1)
  \/ \E arg \in CaseClearArgs : Quiet /\ ClearAllCache(arg)
  \/ ClearGameCacheRuns
  \/ ClearAnalysisCacheRuns

SpecCase == Init /\ [][NextCase]_vars

\* Fetches, one-game batches and clears of two players who meet in g1 and
\* g2, one call at a time.
ClearUsers == {Ualice, Ubob}

NextClear ==
  \/ \E u \in ClearUsers : Quiet /\ GetMonthlyGames(1, u, 2024, 12)
  \/ \E gs \in ExtBatches(fetch[1].year, fetch[1].month) : FetchResponds(1, gs)
  \/ FetchFails(1)
  \/ CacheGamesResolves(1)
  \/ \E u \in ClearUsers, gs \in OneGameLists : Quiet /\ StartBatch(1, u, gs)
  \/ LoopIteration(1)
  \/ \E rev \in Revs : AnalyzeGameReturns(1, rev)
  \/ CacheAnalysisResolves(1)
  \/ LoopEnd(1)
  \/ HandlerEnds(1)
  \/ \E arg \in ClearArgs : Quiet /\ ClearAllCache(arg)
  \/ ClearGameCacheRuns
  \/ ClearAnalysisCacheRuns

SpecClear == Init /\ [][NextClear]_vars

\* Fetches, profile reads and clears of two players, the name of one being
\* a proper prefix of the name of the other, one call at a time.
Ualicia == <<"a", "l", "i">>
PrefixUsers == {Ualice, Ualicia}
PrefixClearArgs ==
  {NoArg} \cup {[given |-> TRUE, username |-> u] : u \in PrefixUsers}

NextPrefix ==
  \/ \E u \in PrefixUsers : Quiet /\ GetPlayerProfile(u)
  \/ \E profile \in ExtProfiles : ProfileResponds(profile)
  \/ ProfileFails
  \/ \E u \in PrefixUsers : Quiet /\ GetMonthlyGames(1, u, 2024, 12)
  \/ \E gs \in ExtBatches(fetch[1].year, fetch[1].month) : FetchResponds(1, gs)
  \/ FetchFails(1)
  \/ CacheGamesResolves(1)
  \/ \E arg \in PrefixClearArgs : Quiet /\ ClearAllCache(arg)
  \/ ClearGameCacheRuns
  \/ ClearAnalysisCacheRuns

SpecPrefix == Init /\ [][NextPrefix]_vars

\* ------------------------------------ CacheService.cacheGame / cacheGames
\* What the provider may hold for g1 and g2 at different times: the same
\* uuid with one pgn text or another.
GamePayloads == {ChessComGame(g, ok) : g \in {"g1", "g2"}, ok \in BOOLEAN}

\* The lists of a month: no uuid twice.
PayloadLists ==
  {gs \in SeqsUpTo(GamePayloads, MaxPut) \ {<<>>} :
     \A j, k \in 1..Len(gs) : j # k => gs[j].uuid # gs[k].uuid}

\* A call of cacheGames (of cacheGame for a list of one) that resolves.
\* last keeps the arguments and what getCachedGame answered before the call.
CacheGamesCall(gs, username) ==
  /\ dbReady = "resolved"
  /\ games' = cacheGames(games, gs, username)
  /\ storedFor' = storedFor \cup
       {<<"game", gs[k].uuid, toLowerCase(username)>> : k \in 1..Len(gs)}
  /\ last' = [kind |-> "put", games |-> gs, username |-> username,
              before |-> [k \in 1..Len(gs) |-> getCachedGame(gs[k].uuid)]]
  /\ UNCHANGED <<analysis, monthlyGamesCache, userProfileCache, now, ticks,
                 batch, clr, fetch, prof, extCalls, dbReady>>

NextUpsert ==
  \E gs \in PayloadLists, u \in Usernames : Quiet /\ CacheGamesCall(gs, u)

SpecUpsert == Init /\ [][NextUpsert]_vars

\* Two /api/analyze requests at a time, of two players, each over one of
\* the games they played against each other.  The analyses of a request
\* carry its number as rev, which tells the writes of the two apart.
RaceLists == {gs \in OneGameLists : gs[1].pgnOk}

NextBatchRace ==
  \/ \E r \in Reqs, u \in ClearUsers, gs \in RaceLists : StartBatch(r, u, gs)
  \/ \E r \in Reqs : LoopIteration(r)
  \/ \E r \in Reqs : AnalyzeGameReturns(r, r)
  \/ \E r \in Reqs : CacheAnalysisResolves(r)
  \/ \E r \in Reqs : LoopEnd(r)
  \/ \E r \in Reqs : HandlerEnds(r)

SpecBatchRace == Init /\ [][NextBatchRace]_vars

\* --------------------------------------------- durable reads as calls
\* How a read settles: await this.dbReady throws when the initialisation
\* was rejected; a query error resolves with the answer for "not found".
ReadCall(op, err, value, miss) ==
  [kind |-> "read", op |-> op, failed |-> err \/ dbReady = "rejected",
   settled |-> dbReady, value |-> IF err THEN miss ELSE value, miss |-> miss]

GetCachedGameCall(uuid, err) ==
  /\ last' = ReadCall("getCachedGame", err, getCachedGame(uuid),
                      [hit |-> FALSE])
  /\ UNCHANGED <<games, analysis, monthlyGamesCache, userProfileCache, now,
                 ticks, batch, clr, fetch, extCalls, prof, storedFor, dbReady>>

GetCachedAnalysisCall(gameUuid, username, err) ==
  /\ last' = ReadCall("getCachedAnalysis", err,
                      getCachedAnalysis(gameUuid, username), [hit |-> FALSE])
  /\ UNCHANGED <<games, analysis, monthlyGamesCache, userProfileCache, now,
                 ticks, batch, clr, fetch, extCalls, prof, storedFor, dbReady>>

\* Reads and writes of one player against a database that may have failed
\* to initialise and whose queries may fail, one call at a time.
StorageUsers == {Ualice}
StorageGames == {<<game>> : game \in {ChessComGame("g1", TRUE)}}

NextStorage ==
  \/ \E gs \in StorageGames, u \in StorageUsers :
       Quiet /\ CacheGamesCall(gs, u)
  \/ \E u \in StorageUsers, gs \in OneGameLists : Quiet /\ StartBatch(1, u, gs)
  \/ \E u \in StorageUsers, gs \in OneGameLists :
       Quiet /\ StartBatchReadError(1, u, gs)
  \/ \E u \in StorageUsers, gs \in OneGameLists :
       Quiet /\ StartBatchRejects(1, u, gs)
  \/ LoopIteration(1)
  \/ \E rev \in Revs : AnalyzeGameReturns(1, rev)
  \/ CacheAnalysisResolves(1)
  \/ CacheAnalysisRejects(1)
  \/ LoopEnd(1)
  \/ HandlerEnds(1)
  \/ \E g \in GameIds, err \in BOOLEAN : Quiet /\ GetCachedGameCall(g, err)
  \/ \E g \in GameIds, u \in StorageUsers, err \in BOOLEAN :
       Quiet /\ GetCachedAnalysisCall(g, u, err)

SpecStorage == InitAnyDb /\ [][NextStorage]_vars

\* /api/analyze requests of one player, one at a time, in which the
\* evaluation of a move may throw and the write of an analysis may fail.
NextBatchFaults ==
  \/ \E u \in StorageUsers, gs \in RawGameLists : Quiet /\ StartBatch(1, u, gs)
  \/ LoopIteration(1)
  \/ \E rev \in Revs : AnalyzeGameReturns(1, rev)
  \/ \E rev \in Revs : AnalyzeGameMoveError(1, rev)
  \/ CacheAnalysisResolves(1)
  \/ CacheAnalysisRejects(1)
  \/ LoopEnd(1)
  \/ HandlerEnds(1)

SpecBatchFaults == Init /\ [][NextBatchFaults]_vars

\* getMonthlyGames calls of one player, one at a time, while the clock
\* runs, against a database that may have failed to initialise and whose
\* INSERTs may fail.
NextFetchFaults ==
  \/ \E u \in StorageUsers, ym \in Periods :
       GetMonthlyGames(1, u, ym[1], ym[2])
  \/ \E gs \in ExtBatches(fetch[1].year, fetch[1].month) : FetchResponds(1, gs)
  \/ FetchFails(1)
  \/ CacheGamesResolves(1)
  \/ \E W \in SUBSET (1..MaxBatch) : CacheGamesRejects(1, W)
  \/ \E d \in Deltas : AdvanceTime(d)

SpecFetchFaults == InitAnyDb /\ [][NextFetchFaults]_vars

\* getPlayerProfile calls of one player under two spellings, one at a time,
\* while the clock runs.
NextProfile ==
  \/ \E u \in FetchUsers : GetPlayerProfile(u)
  \/ \E profile \in ExtProfiles : ProfileResponds(profile)
  \/ ProfileFails
  \/ \E d \in Deltas : AdvanceTime(d)

SpecProfile == Init /\ [][NextProfile]_vars

\* /api/analyze requests of one player, one at a time, with analyzeGame
\* taken at its awaits; the write of an analysis may fail.  Every
\* continuation of a request that is ready is run in the end (the event
\* loop), and every call a request waits for settles.
NextLifecycle ==
  \/ \E u \in StorageUsers, gs \in RawGameLists : Quiet /\ StartBatch(1, u, gs)
  \/ LoopIteration(1)
  \/ EvaluationEnds(1)
  \/ \E rev \in Revs, err \in BOOLEAN : SummaryReturns(1, rev, err)
  \/ CacheAnalysisResolves(1)
  \/ CacheAnalysisRejects(1)
  \/ LoopEnd(1)
  \/ HandlerEnds(1)

FairLifecycle ==
  /\ WF_vars(LoopIteration(1))
  /\ WF_vars(EvaluationEnds(1))
  /\ WF_vars(\E rev \in Revs, err \in BOOLEAN : SummaryReturns(1, rev, err))
  /\ WF_vars(CacheAnalysisResolves(1) \/ CacheAnalysisRejects(1))
  /\ WF_vars(LoopEnd(1))

SpecLifecycle == Init /\ [][NextLifecycle]_vars /\ FairLifecycle

\* The /api/analyze handler from its start: the games getAllPlayerGames
\* returned (here those of the month a getMonthlyGames call has just
\* returned, fetched or from the cache) are the rawGames of the loop.
AnalyzeFetched(r) ==
  /\ last.kind = "monthly"
  /\ last.via \in {"fetched", "cache"}
  /\ last.data # <<>>
  /\ StartBatch(r, last.username, last.data)

\* Requests of two players who meet in g1 and g2, one at a time: the games
\* of the month are fetched, then analysed; clears in between.
NextIntegrity ==
  \/ \E u \in ClearUsers : Quiet /\ GetMonthlyGames(1, u, 2024, 12)
  \/ \E gs \in ExtBatches(fetch[1].year, fetch[1].month) : FetchResponds(1, gs)
  \/ FetchFails(1)
  \/ CacheGamesResolves(1)
  \/ Quiet /\ AnalyzeFetched(1)
  \/ LoopIteration(1)
  \/ \E rev \in Revs : AnalyzeGameReturns(1, rev)
  \/ CacheAnalysisResolves(1)
  \/ LoopEnd(1)
  \/ HandlerEnds(1)
  \/ \E arg \in ClearArgs : Quiet /\ ClearAllCache(arg)
  \/ ClearGameCacheRuns
  \/ ClearAnalysisCacheRuns

SpecIntegrity == Init /\ [][NextIntegrity]_vars

\* /api/analyze requests of one player, one at a time, over games whose
\* pgn text the provider may deliver differently from one request to the
\* next.
NextReparse ==
  \/ \E u \in StorageUsers, gs \in PayloadLists : Quiet /\ StartBatch(1, u, gs)
  \/ LoopIteration(1)
  \/ \E rev \in Revs : AnalyzeGameReturns(1, rev)
  \/ CacheAnalysisResolves(1)
  \/ LoopEnd(1)
  \/ HandlerEnds(1)

SpecReparse == Init /\ [][NextReparse]_vars

\* ================================================================ claims
Range(f) == {f[k] : k \in DOMAIN f}
Increasing(f) == \A j, k \in DOMAIN f : j < k => f[j] < f[k]
Active(b) ==
  b.pc \in {"loop", "analyzing", "summarizing", "caching", "done"}

\* A durable analysis record of game g for this user, in a given table.
HasRecord(table, g, username) ==
  g \in DOMAIN table /\ table[g].username = toLowerCase(username)

\* The input positions the loop has reached (the one in hand included).
Reached(b) ==
  IF b.pc \in {"analyzing", "summarizing", "caching"} THEN 1..b.i
  ELSE 1..(b.i - 1)

MissAtStart(b, k) == ~HasRecord(b.atStart, b.rawGames[k].uuid, b.username)

\* C1 as stated: when a run is over, analyzeGame has been invoked exactly
\* once for each input game without a durable record for the user at the
\* start of the run, in input order, and for no other game.
C1_ComputeForEveryMiss ==
  \A r \in Reqs :
    batch[r].pc = "done" =>
      /\ Increasing(batch[r].computed)
      /\ Range(batch[r].computed) =
           {k \in 1..Len(batch[r].rawGames) : MissAtStart(batch[r], k)}

\* C1 amended: at every point of a run, analyzeGame has been invoked exactly
\* once, in input order, for each input game reached so far that had no
\* durable record for the user at the start of the run and whose movetext
\* parses, and for no other game.
C1_ComputeForParsableMisses ==
  \A r \in Reqs :
    Active(batch[r]) =>
      /\ Increasing(batch[r].computed)
      /\ Range(batch[r].computed) =
           {k \in Reached(batch[r]) :
              /\ MissAtStart(batch[r], k)
              /\ ~parseThrows(batch[r].rawGames[k])}

\* A finished run with a cache hit, a computed miss and a miss that does not
\* parse.
C1_Witness ==
  \E r \in Reqs :
    /\ batch[r].pc = "done"
    /\ Len(batch[r].computed) >= 1
    /\ \E k \in 1..Len(batch[r].rawGames) : ~MissAtStart(batch[r], k)
    /\ \E k \in 1..Len(batch[r].rawGames) :
         MissAtStart(batch[r], k) /\ parseThrows(batch[r].rawGames[k])

\* C2: the analyses of a run follow the input order: the input positions
\* behind the result list increase strictly, and each analysis is the one of
\* the game at its position.
C2_ResultFollowsInputOrder ==
  \A r \in Reqs :
    LET b == batch[r]
    IN Active(b) =>
         /\ Len(b.resIdx) = Len(b.analyses)
         /\ Increasing(b.resIdx)
         /\ \A k \in 1..Len(b.analyses) :
              /\ b.resIdx[k] \in 1..Len(b.rawGames)
              /\ b.analyses[k].gameId = b.rawGames[b.resIdx[k]].uuid

\* A finished run whose result holds a cached analysis after a computed one.
C2_Witness ==
  \E r \in Reqs :
    LET b == batch[r]
    IN /\ b.pc = "done"
       /\ \E j, k \in 1..Len(b.resIdx) :
            /\ j < k
            /\ b.resIdx[j] \in Range(b.computed)
            /\ b.resIdx[k] \notin Range(b.computed)

\* C3 as stated: records are kept per (game, lowercased username), so the
\* write of one user's analysis of a game leaves what getCachedAnalysis
\* answers for that game to every other user.
C3_KeyedByGameAndUser ==
  [][\A r \in Reqs :
       (batch[r].pc = "caching" /\ batch'[r].pc = "loop") =>
         \A u \in Usernames, g \in GameIds :
           toLowerCase(u) # toLowerCase(batch[r].username) =>
             getCachedAnalysis(g, u)' = getCachedAnalysis(g, u)]_vars

\* The analysis computed in this run for input position k.
AnalysisAt(b, k) ==
  b.analyses[CHOOSE n \in 1..Len(b.resIdx) : b.resIdx[n] = k]

\* The computed positions whose cacheAnalysis call has resolved.
Persisted(b) == {k \in Range(b.computed) : k < b.i}

\* The latest persisted position holding the same game as position k.
LatestOf(b, k) ==
  CHOOSE m \in Persisted(b) :
    /\ b.rawGames[m].uuid = b.rawGames[k].uuid
    /\ \A n \in Persisted(b) :
         b.rawGames[n].uuid = b.rawGames[k].uuid => n <= m

SendsRequest(p) == fetch[p].pc = "idle" /\ fetch'[p].pc = "fetching"

KeyOf(f) == MonthKey(f.username, f.year, f.month)

\* C4 as stated: a request for a month goes to the provider only when no
\* request for the same (lowercased username, year, month) was sent within
\* the shortest TTL of the ephemeral cache before it.
C4_OneRequestPerWindow ==
  [][\A p \in Reqs :
       SendsRequest(p) =>
         \/ KeyOf(fetch'[p]) \notin DOMAIN extCalls
         \/ now - extCalls[KeyOf(fetch'[p])].at > CURRENT_MONTH_TTL]_vars

\* C5: a getMonthlyGames call that follows a call for the same key that
\* fetched its batch from the provider, no later than the short TTL after
\* that call sent its request, returns that same batch from the cache and
\* sends no request.
C5_SecondCallFromCache ==
  [][\A p \in Reqs, u \in Usernames, ym \in Periods :
       ( /\ last.kind = "monthly"
         /\ last.via = "fetched"
         /\ KeyOf(last) = MonthKey(u, ym[1], ym[2])
         /\ now - extCalls[KeyOf(last)].at <= CURRENT_MONTH_TTL
         /\ GetMonthlyGames(p, u, ym[1], ym[2]) )
       => /\ last'.kind = "monthly"
          /\ last'.via = "cache"
          /\ last'.data = last.data
          /\ extCalls' = extCalls
          /\ fetch' = fetch]_vars

\* A call answered from the cache with no time passed since the batch was
\* stored, under the other spelling than the one that fetched it, after
\* exactly one request for that month.
C5_Witness ==
  /\ last.kind = "monthly"
  /\ last.via = "cache"
  /\ last.username = Ualice
  /\ last.data # <<>>
  /\ EntryAge(KeyOf(last)) = 0
  /\ Requests(KeyOf(last)) = 1
  /\ \A g \in Range(Uuids(last.data)) :
       g \in DOMAIN games /\ games[g].username = Ualice
  /\ ticks = 0

\* The cached batch of this key is older than the short TTL and younger
\* than the long one.
AgedBetween(key) ==
  /\ key \in DOMAIN monthlyGamesCache
  /\ EntryAge(key) > CURRENT_MONTH_TTL
  /\ EntryAge(key) < MONTHLY_GAMES_TTL

\* C8: a batch of the current calendar month aged between the two TTLs is
\* expired: the call finds no batch, removes the entry and sends a request.
C8_CurrentMonthExpires ==
  [][\A p \in Reqs, u \in Usernames, ym \in Periods :
       ( /\ AgedBetween(MonthKey(u, ym[1], ym[2]))
         /\ ym = CurrentDate(now)
         /\ GetMonthlyGames(p, u, ym[1], ym[2]) )
       => /\ ~getCachedMonthlyGames(u, ym[1], ym[2]).hit
          /\ MonthKey(u, ym[1], ym[2]) \notin DOMAIN monthlyGamesCache'
          /\ SendsRequest(p)
          /\ Requests(MonthKey(u, ym[1], ym[2]))' =
               Requests(MonthKey(u, ym[1], ym[2])) + 1]_vars

\* A call has just evicted a batch of the current month of that age and its
\* request is out.
C8_Witness ==
  /\ last.kind = "miss"
  /\ last.evicted
  /\ last.age > CURRENT_MONTH_TTL
  /\ last.age < MONTHLY_GAMES_TTL
  /\ <<last.year, last.month>> = CurrentDate(now)
  /\ fetch[1].pc = "fetching"
  /\ KeyOf(last) \notin DOMAIN monthlyGamesCache

\* C9: a batch of any other month aged between the two TTLs is served from
\* the cache, and no request is sent.
C9_PastMonthServed ==
  [][\A p \in Reqs, u \in Usernames, ym \in Periods :
       ( /\ AgedBetween(MonthKey(u, ym[1], ym[2]))
         /\ ym # CurrentDate(now)
         /\ GetMonthlyGames(p, u, ym[1], ym[2]) )
       => /\ last'.kind = "monthly"
          /\ last'.via = "cache"
          /\ last'.data = monthlyGamesCache[MonthKey(u, ym[1], ym[2])].data
          /\ monthlyGamesCache' = monthlyGamesCache
          /\ extCalls' = extCalls
          /\ fetch' = fetch]_vars

\* A call answered from the cache with a batch of a month that is not the
\* current one, of that age.
C9_Witness ==
  /\ last.kind = "monthly"
  /\ last.via = "cache"
  /\ <<last.year, last.month>> # CurrentDate(now)
  /\ AgedBetween(KeyOf(last))

IsLower(username) == toLowerCase(username) = username
GivenArg(u) == [given |-> TRUE, username |-> u]

\* C7: two spellings of a username that differ only in case address the
\* same entries.  Every read, write and clear of the four stores has the
\* same result and the same effect under <<"A","l">> as under <<"a","l">>,
\* and no key and no username column holds an upper-case letter.
C7_CaseInsensitive ==
  /\ getCachedUserProfile(UAlice) = getCachedUserProfile(Ualice)
  /\ getCachedUserProfileMap(UAlice) = getCachedUserProfileMap(Ualice)
  /\ \A x \in ExtProfiles :
       cacheUserProfile(UAlice, x) = cacheUserProfile(Ualice, x)
  /\ clearUserProfileCache(GivenArg(UAlice)) =
       clearUserProfileCache(GivenArg(Ualice))
  /\ \A ym \in Periods :
       /\ getCachedMonthlyGames(UAlice, ym[1], ym[2]) =
            getCachedMonthlyGames(Ualice, ym[1], ym[2])
       /\ getCachedMonthlyGamesMap(UAlice, ym[1], ym[2]) =
            getCachedMonthlyGamesMap(Ualice, ym[1], ym[2])
       /\ \A gs \in ExtBatches(ym[1], ym[2]) :
            cacheMonthlyGames(monthlyGamesCache, UAlice, ym[1], ym[2], gs) =
              cacheMonthlyGames(monthlyGamesCache, Ualice, ym[1], ym[2], gs)
  /\ clearMonthlyGamesCache(GivenArg(UAlice)) =
       clearMonthlyGamesCache(GivenArg(Ualice))
  /\ \A game \in RawGames :
       cacheGame(games, game, UAlice) = cacheGame(games, game, Ualice)
  /\ clearGameCache(GivenArg(UAlice)) = clearGameCache(GivenArg(Ualice))
  /\ \A g \in GameIds :
       getCachedAnalysis(g, UAlice) = getCachedAnalysis(g, Ualice)
  /\ \A gs \in RawGameLists :
       getCachedAnalyses(UAlice, Uuids(gs)) =
         getCachedAnalyses(Ualice, Uuids(gs))
  /\ \A g \in GameIds, rev \in Revs :
       cacheAnalysis(analysis, g, UAlice, [gameId |-> g, rev |-> rev]) =
         cacheAnalysis(analysis, g, Ualice, [gameId |-> g, rev |-> rev])
  /\ clearAnalysisCache(GivenArg(UAlice)) =
       clearAnalysisCache(GivenArg(Ualice))
  /\ \A k \in DOMAIN userProfileCache : IsLower(k)
  /\ \A k \in DOMAIN monthlyGamesCache : IsLower(k)
  /\ \A g \in DOMAIN games : IsLower(games[g].username)
  /\ \A g \in DOMAIN analysis : IsLower(analysis[g].username)

\* The analysis of g1 computed and written under <<"A","l">> (only that
\* spelling plays white in g1) is read back under <<"a","l">>, while each
\* of the other three stores holds exactly one entry, written under one
\* spelling and read under both.
C7_Witness ==
  /\ getCachedAnalysis("g1", Ualice).hit
  /\ getCachedAnalysis("g1", Ualice).data.playerColor = "white"
  /\ getCachedUserProfile(UAlice).hit
  /\ getCachedUserProfile(Ualice).hit
  /\ Cardinality(DOMAIN userProfileCache) = 1
  /\ getCachedMonthlyGames(UAlice, 2024, 12).hit
  /\ getCachedMonthlyGames(Ualice, 2024, 12).hit
  /\ Cardinality(DOMAIN monthlyGamesCache) = 1
  /\ "g1" \in DOMAIN games
  /\ last.kind = "monthly"
  /\ last.via = "cache"
  /\ last.username = UAlice
  /\ extCalls[KeyOf(last)].n = 1

\* C10 as stated: when clear(username) is over, no game row and no analysis
\* row of that user is left and every row another user has stored (and not
\* cleared) is still retrievable; when clear() is over, both tables are
\* empty.
C10_ClearScopedByUser ==
  last.kind = "cleared" =>
    IF last.arg.given
    THEN /\ \A g \in DOMAIN games :
              games[g].username # toLowerCase(last.arg.username)
         /\ \A g \in DOMAIN analysis :
              analysis[g].username # toLowerCase(last.arg.username)
         /\ \A t \in storedFor :
              /\ t[1] = "game" => getCachedGame(t[2]).hit
              /\ t[1] = "analysis" => getCachedAnalysis(t[2], t[3]).hit
    ELSE games = EmptyMap /\ analysis = EmptyMap

\* The keys of the monthly batches of a user.
MonthKeysOf(username) == {MonthKey(username, ym[1], ym[2]) : ym \in Periods}

\* C11 as stated: clearUserProfileCache(username) and
\* clearMonthlyGamesCache(username) remove the entries of that user and
\* leave every other entry as it was, also the entries of a user whose name
\* begins with the given one.
C11_ClearRemovesOnlyTheUser ==
  [][(clr.pc = "idle" /\ clr'.pc = "games" /\ clr'.arg.given) =>
       /\ userProfileCache' =
            MapDelete(userProfileCache, toLowerCase(clr'.arg.username))
       /\ monthlyGamesCache' =
            MapKeep(monthlyGamesCache,
                    DOMAIN monthlyGamesCache
                      \ MonthKeysOf(clr'.arg.username))]_vars

\* C12: cacheGame is an upsert keyed by uuid.  After a cacheGames call has
\* resolved, whether or not the uuids were stored before, the table holds
\* for each uuid of the call the row of that call: getCachedGame returns the
\* game just written, under the caller's lowercased username.
C12_UpsertKeepsLatest ==
  last.kind = "put" =>
    \A k \in 1..Len(last.games) :
      /\ getCachedGame(last.games[k].uuid) =
           [hit |-> TRUE, data |-> last.games[k]]
      /\ games[last.games[k].uuid].username = toLowerCase(last.username)

\* A call that resolved for a uuid stored before with another pgn text, by
\* another user.
C12_Witness ==
  /\ last.kind = "put"
  /\ \E k \in 1..Len(last.games) :
       /\ last.before[k].hit
       /\ last.before[k].data # last.games[k]
       /\ getCachedGame(last.games[k].uuid).data = last.games[k]
       /\ <<"game", last.games[k].uuid, toLowerCase(Ubob)>> \in storedFor
  /\ last.username = UAlice

\* C13 as stated: the analysis store is a last-write-wins map over the
\* keys (game uuid, lowercased username).  Under every interleaving of two
\* requests, a cacheAnalysis that completes makes getCachedAnalysis return
\* its value for its own key and leaves what getCachedAnalysis returns for
\* every other key.
C13_LastWriteWinsPerKey ==
  [][\A r \in Reqs :
       (batch[r].pc = "caching" /\ batch'[r].pc = "loop") =>
         LET b == batch[r]
             written == b.rawGames[b.i].uuid
         IN \A u \in Usernames, g \in GameIds :
              getCachedAnalysis(g, u)' =
                IF g = written /\ toLowerCase(u) = toLowerCase(b.username)
                THEN [hit |-> TRUE, data |-> b.analyses[Len(b.analyses)]]
                ELSE getCachedAnalysis(g, u)]_vars

\* C14 as stated: a durable read never rejects, and when the storage
\* failed (the initialisation was rejected, or the query reported an
\* error) it answers "not found".
C14_ReadsNeverReject ==
  last.kind = "read" =>
    /\ last.settled = "resolved"
    /\ last.failed => last.value = last.miss

\* The unsaved positions of a run are those whose cacheAnalysis rejected.
InResult(b, k) == Cardinality({j \in 1..Len(b.resIdx) : b.resIdx[j] = k})

\* C16: when cacheAnalysis rejects for a computed game, the analysis of
\* that game is in the result exactly once, the loop goes on to the next
\* game, and at the end every later game has been processed: it is in the
\* result, or it was skipped because its pgn does not parse.
C16_WriteFailureNotFatal ==
  \A r \in Reqs :
    LET b == batch[r]
    IN Active(b) =>
         \A k \in Range(b.unsaved) :
           /\ InResult(b, k) = 1
           /\ \A j \in 1..Len(b.resIdx) :
                b.resIdx[j] = k =>
                  b.analyses[j].gameId = b.rawGames[k].uuid
           /\ b.i > k
           /\ b.pc = "done" =>
                \A n \in (k + 1)..Len(b.rawGames) :
                  IF b.rawGames[n].pgnOk THEN InResult(b, n) = 1
                  ELSE n \in Range(b.skipped)

\* A finished run of three games whose first write failed: all three
\* analyses are in the result and only the later two are stored.
C16_Witness ==
  \E r \in Reqs :
    LET b == batch[r]
    IN /\ b.pc = "done"
       /\ b.unsaved = <<1>>
       /\ b.resIdx = <<1, 2, 3>>
       /\ b.rawGames[1].uuid \notin DOMAIN analysis
       /\ b.rawGames[2].uuid \in DOMAIN analysis
       /\ b.rawGames[3].uuid \in DOMAIN analysis

\* C18 as stated: a game with a move whose evaluation failed is skipped,
\* so no analysis with an unevaluated move is in a result and none is
\* stored.
C18_MoveErrorSkipsGame ==
  /\ \A r \in Reqs : \A j \in 1..Len(batch[r].analyses) :
       ~batch[r].analyses[j].moveErrors
  /\ \A g \in DOMAIN analysis : ~JSONparse(analysis[g].analysis_data).moveErrors

\* The input positions whose pgn loads.
Parsable(b) == {k \in 1..Len(b.rawGames) : b.rawGames[k].pgnOk}

\* C17: a finished run over N games of which exactly one has a pgn that
\* does not load and none had an analysis record at the start holds N-1
\* analyses: those of the other games, one each, in input order.
C17_OneMalformedGameSkipped ==
  \A r \in Reqs :
    LET b == batch[r]
        N == Len(b.rawGames)
    IN ( /\ b.pc = "done"
         /\ Cardinality(Parsable(b)) = N - 1
         /\ \A k \in 1..N : MissAtStart(b, k) )
       => /\ Len(b.analyses) = N - 1
          /\ Len(b.resIdx) = N - 1
          /\ Increasing(b.resIdx)
          /\ Range(b.resIdx) = Parsable(b)
          /\ \A j \in 1..Len(b.analyses) :
               b.analyses[j].gameId = b.rawGames[b.resIdx[j]].uuid

\* A finished run over three games, the second of which does not load:
\* the analyses of the first and the third are the result.
C17_Witness ==
  \E r \in Reqs :
    LET b == batch[r]
    IN /\ b.pc = "done"
       /\ Len(b.rawGames) = 3
       /\ Parsable(b) = {1, 3}
       /\ \A k \in 1..3 : MissAtStart(b, k)
       /\ b.resIdx = <<1, 3>>
       /\ b.skipped = <<2>>
       /\ b.rawGames[1].uuid # b.rawGames[3].uuid

\* C15 as stated: once the provider has answered, getMonthlyGames returns
\* the fetched batch whether the write of the games succeeds or fails.
C15_WriteFailureSwallowed ==
  [][\A p \in Reqs :
       (fetch[p].pc = "storing" /\ fetch'[p].pc = "idle") =>
         /\ last'.kind = "monthly"
         /\ last'.via = "fetched"
         /\ last'.data = fetch[p].games]_vars

\* C19 as stated: a getMonthlyGames call fails only when the request to
\* the provider failed, and the step in which it fails changes neither the
\* monthly-batch cache nor the games table.
C19_OnlyFetchFailurePropagates ==
  [][\A p \in Reqs :
       ( /\ fetch[p].pc # "idle"
         /\ fetch'[p].pc = "idle"
         /\ last'.via = "error" )
       => /\ fetch[p].pc = "fetching"
          /\ monthlyGamesCache' = monthlyGamesCache
          /\ games' = games]_vars

C21_StoredGameImmutable ==
  [][~(clr.pc = "games" /\ clr'.pc = "analysis") =>
       \A g \in DOMAIN games :
         g \in DOMAIN games' /\ games'[g] = games[g]]_vars

\* The TTL that applies to a batch of this month when it is read now.
MonthlyTTL(ym) ==
  IF ym = CurrentDate(now) THEN CURRENT_MONTH_TTL ELSE MONTHLY_GAMES_TTL

\* C22 as stated: a getMonthlyGames call that finds a batch stored under its
\* key is answered with that batch when now - storedAt < TTL of the class
\* that applies at read time, and otherwise (so also at now - storedAt = TTL)
\* finds no batch and removes the entry.
C22_MonthlyExpiryStrict ==
  [][\A p \in Reqs, u \in Usernames, ym \in Periods :
       ( /\ MonthKey(u, ym[1], ym[2]) \in DOMAIN monthlyGamesCache
         /\ GetMonthlyGames(p, u, ym[1], ym[2]) )
       => IF EntryAge(MonthKey(u, ym[1], ym[2])) < MonthlyTTL(ym)
          THEN /\ last'.kind = "monthly"
               /\ last'.via = "cache"
               /\ last'.data =
                    monthlyGamesCache[MonthKey(u, ym[1], ym[2])].data
               /\ monthlyGamesCache' = monthlyGamesCache
          ELSE /\ last'.kind = "miss"
               /\ MonthKey(u, ym[1], ym[2])
                    \notin DOMAIN monthlyGamesCache']_vars

\* now - storedAt of the cached profile of this user (0 when there is none).
ProfileAge(username) ==
  IF ProfileKey(username) \in DOMAIN userProfileCache
  THEN now - userProfileCache[ProfileKey(username)].timestamp ELSE 0

\* C23 as stated: a getPlayerProfile call that finds a profile stored for
\* its user is answered with it when now - storedAt < USER_PROFILE_TTL, and
\* otherwise (so also at now - storedAt = USER_PROFILE_TTL) finds none,
\* deletes the stale entry and goes to the provider.
C23_ProfileExpiryStrict ==
  [][\A u \in Usernames :
       ( /\ ProfileKey(u) \in DOMAIN userProfileCache
         /\ GetPlayerProfile(u) )
       => IF ProfileAge(u) < USER_PROFILE_TTL
          THEN /\ last'.kind = "profile"
               /\ last'.via = "cache"
               /\ last'.data = userProfileCache[ProfileKey(u)].data
               /\ userProfileCache' = userProfileCache
          ELSE /\ prof'.pc = "fetching"
               /\ ProfileKey(u) \notin DOMAIN userProfileCache']_vars

\* C24: the TTL class of a batch is the one of the moment it is read.  A
\* batch stored while its month was the current one and read after the
\* calendar has moved on is served from the cache, with no request sent,
\* whenever its age is under MONTHLY_GAMES_TTL.
C24_ClassDecidedAtRead ==
  [][\A p \in Reqs, u \in Usernames, ym \in Periods :
       ( /\ MonthKey(u, ym[1], ym[2]) \in DOMAIN monthlyGamesCache
         /\ CurrentDate(monthlyGamesCache[MonthKey(u, ym[1], ym[2])].timestamp)
              = ym
         /\ CurrentDate(now) # ym
         /\ EntryAge(MonthKey(u, ym[1], ym[2])) < MONTHLY_GAMES_TTL
         /\ GetMonthlyGames(p, u, ym[1], ym[2]) )
       => /\ last'.kind = "monthly"
          /\ last'.via = "cache"
          /\ last'.data = monthlyGamesCache[MonthKey(u, ym[1], ym[2])].data
          /\ monthlyGamesCache' = monthlyGamesCache
          /\ extCalls' = extCalls
          /\ fetch' = fetch]_vars

\* A call answered from the cache with a batch stored while its month was
\* the current one, after the month has turned, the batch being older than
\* the TTL of a current month.
C24_Witness ==
  /\ last.kind = "monthly"
  /\ last.via = "cache"
  /\ last.data # <<>>
  /\ KeyOf(last) \in DOMAIN monthlyGamesCache
  /\ CurrentDate(monthlyGamesCache[KeyOf(last)].timestamp) =
       <<last.year, last.month>>
  /\ CurrentDate(now) # <<last.year, last.month>>
  /\ EntryAge(KeyOf(last)) > CURRENT_MONTH_TTL

\* The state of the game at input position k of a run.
GameState(b, k) ==
  IF k \in Range(b.skipped) THEN "SKIPPED"
  ELSE IF k < b.i \/ b.pc = "done" THEN "DONE"
  ELSE IF k > b.i \/ b.pc = "loop" THEN "PENDING"
  ELSE IF b.pc = "analyzing" THEN "EVALUATING"
  ELSE IF b.pc = "summarizing" THEN "SUMMARIZING"
  ELSE "PERSISTING"

\* The game in hand is found in the Map of cached analyses.
CacheHit(b) == b.rawGames[b.i].uuid \in DOMAIN b.cachedAnalyses

\* C25: each game of a run follows PENDING -> FETCHING_CACHE -> (CACHE_HIT
\* -> DONE | CACHE_MISS -> EVALUATING -> SUMMARIZING -> PERSISTING -> DONE).
\* The lookup of a pending game ends in one step: with a hit the cached
\* analysis is in the result and the game is DONE, nothing being computed
\* or written; with a miss the game is EVALUATING; a game whose pgn does
\* not load is SKIPPED.  From EVALUATING the only step is to SUMMARIZING,
\* from there to PERSISTING with the analysis in the result, from there to
\* DONE, and no other game changes its state meanwhile.  A finished run has
\* every game DONE (in the result) or SKIPPED, and every run finishes.
C25_GameLifecycle ==
  /\ [][\A r \in Reqs :
         LET b == batch[r]
             c == batch'[r]
             k == b.i
         IN (Active(b) /\ b.pc # "done" /\ c # b /\ k <= Len(b.rawGames)) =>
              /\ \A j \in 1..Len(b.rawGames) :
                   j # k => GameState(c, j) = GameState(b, j)
              /\ CASE GameState(b, k) = "PENDING" ->
                        IF parseThrows(b.rawGames[k])
                        THEN /\ GameState(c, k) = "SKIPPED"
                             /\ c.analyses = b.analyses
                             /\ c.computed = b.computed
                             /\ analysis' = analysis
                        ELSE IF CacheHit(b)
                        THEN /\ GameState(c, k) = "DONE"
                             /\ c.analyses =
                                  Append(b.analyses,
                                         b.cachedAnalyses[b.rawGames[k].uuid])
                             /\ c.computed = b.computed
                             /\ analysis' = analysis
                        ELSE /\ GameState(c, k) = "EVALUATING"
                             /\ c.analyses = b.analyses
                             /\ analysis' = analysis
                   [] GameState(b, k) = "EVALUATING" ->
                        /\ GameState(c, k) = "SUMMARIZING"
                        /\ c.analyses = b.analyses
                        /\ analysis' = analysis
                   [] GameState(b, k) = "SUMMARIZING" ->
                        /\ GameState(c, k) = "PERSISTING"
                        /\ Len(c.analyses) = Len(b.analyses) + 1
                        /\ c.analyses[Len(c.analyses)].gameId =
                             b.rawGames[k].uuid
                        /\ analysis' = analysis
                   [] GameState(b, k) = "PERSISTING" ->
                        /\ GameState(c, k) = "DONE"
                        /\ c.analyses = b.analyses]_vars
  /\ [](\A r \in Reqs :
          batch[r].pc = "done" =>
            \A k \in 1..Len(batch[r].rawGames) :
              /\ GameState(batch[r], k) \in {"DONE", "SKIPPED"}
              /\ GameState(batch[r], k) = "DONE" <=> InResult(batch[r], k) = 1)
  /\ \A r \in Reqs :
       (Active(batch[r]) /\ batch[r].pc # "done") ~> batch[r].pc = "done"

\* A finished run of three games: the first was a cache hit, the second was
\* computed and persisted, the third does not load and was skipped.
C25_Witness ==
  \E r \in Reqs :
    LET b == batch[r]
    IN /\ b.pc = "done"
       /\ Len(b.rawGames) = 3
       /\ b.rawGames[1].uuid \in DOMAIN b.cachedAnalyses
       /\ b.computed = <<2>>
       /\ b.skipped = <<3>>
       /\ b.resIdx = <<1, 2>>
       /\ HasRecord(analysis, b.rawGames[2].uuid, b.username)

\* C26 as stated: in every reachable state, the intermediate states of
\* clearAllCache included, every row of the analysis table has its game in
\* the games table.
C26_AnalysisRefersToGame == \A g \in DOMAIN analysis : g \in DOMAIN games

\* C27 as stated: every analysis in the result of a run, computed or taken
\* from the cache, has the playerColor a fresh computation for the username
\* as requested would give.
C27_CachedPerspectiveOfRequester ==
  \A r \in Reqs :
    LET b == batch[r]
    IN Active(b) =>
         \A j \in 1..Len(b.analyses) :
           b.analyses[j].playerColor =
             getPlayerColor(b.rawGames[b.resIdx[j]], b.username)

\* C28 as stated: in one run analyzeGame is invoked at most once per game
\* uuid, also when the input list holds a uuid more than once.
C28_OncePerUuid ==
  \A r \in Reqs :
    LET b == batch[r]
    IN Active(b) =>
         \A j, k \in Range(b.computed) :
           b.rawGames[j].uuid = b.rawGames[k].uuid => j = k

\* C29 as stated: when a run is over, every input game that had an analysis
\* record for the user at the start of the run is in the result with that
\* record, whether or not its pgn loads.
C29_HitIndependentOfParse ==
  \A r \in Reqs :
    LET b == batch[r]
    IN b.pc = "done" =>
         \A k \in 1..Len(b.rawGames) :
           ~MissAtStart(b, k) =>
             \E j \in 1..Len(b.resIdx) :
               /\ b.resIdx[j] = k
               /\ b.analyses[j] =
                    JSONparse(b.atStart[b.rawGames[k].uuid].analysis_data)

\* C30 as stated: with no getMonthlyGames call in flight (and no clear
\* having run), every game of every batch the monthly cache holds has a row
\* in the games table.
C30_TiersConsistent ==
  FetchQuiet =>
    \A key \in DOMAIN monthlyGamesCache :
      \A k \in 1..Len(monthlyGamesCache[key].data) :
        monthlyGamesCache[key].data[k].uuid \in DOMAIN games

====
